---- MODULE Spec2Model ----
(***************************************************************************)
(* Salary Management System: the withdrawal ledger and the client glue of  *)
(* static/js/script.js.                                                    *)
(*                                                                         *)
(* The browser side (script.js) is modelled from its source: every tab     *)
(* holds one document with its own fields, buttons, timeouts and fetches.  *)
(* The server side (app.py: the employee and transaction tables and the    *)
(* request handlers) is not among the sources; it is modelled from the     *)
(* specification's section 4.1 (Ledger Service), every request being one   *)
(* atomic step of the server.                                              *)
(***************************************************************************)
EXTENDS Integers, Sequences, FiniteSets, Bags, TLC

VARIABLES
    employees,        \* ledger: live employee id -> [monthly_salary]
    nextEmployeeId,   \* ledger: next unused employee id (ids are never reused)
    transactions,     \* ledger: bag of [employee_id, amount]
    tabs,             \* tab -> its page: rendered rows, withdrawal modal, request on its way
    last,             \* the step just taken, when it decided a withdrawal or served a dashboard
    buttons,          \* tab -> form -> its submit button: [disabled, innerHTML]
    timeouts,         \* tab -> the pending timeouts of its document, in setTimeout order
    searchTimeout,    \* tab -> script.js: let searchTimeout (0 is undefined)
    nextTimerId,      \* tab -> the id the next setTimeout of debounceSearch returns
    search,           \* tab -> what debounceSearch was last asked and what it last did
    editForm,         \* tab -> the edit modal: its class, the four fields, the form's action
    editRequests,     \* tab -> fetches of openEditModal that have not been answered yet
    nextRequestId,    \* tab -> the number of the next openEditModal call
    editEvent         \* tab -> what happened last to the edit modal

ledgerVars == <<employees, nextEmployeeId, transactions>>

pageVars == <<tabs, last>>

spinnerVars == <<buttons, timeouts>>

searchVars == <<searchTimeout, nextTimerId, search>>

editVars == <<editForm, editRequests, nextRequestId, editEvent>>

vars == <<employees, nextEmployeeId, transactions, tabs, last, buttons, timeouts,
          searchTimeout, nextTimerId, search,
          editForm, editRequests, nextRequestId, editEvent>>

(***************************************************************************)
(* Bounds.                                                                 *)
(***************************************************************************)
MaxEmployees == 2
MaxSalary == 1
MaxPending == 2
MaxCalls == 4
TicksPerDelay == 5
SpinnerTicks == 1
MaxEditIds == 2
MaxFetches == 3

\* The tabs the operator has open on the application.
Tabs == {"A", "B"}

(***************************************************************************)
(* JavaScript strings: a string is a sequence of one-character strings.    *)
(***************************************************************************)
Digits == <<"0", "1", "2", "3", "4", "5", "6", "7", "8", "9">>

IsDigit(c) == \E i \in 1..10 : Digits[i] = c

DigitVal(c) == (CHOOSE i \in 1..10 : Digits[i] = c) - 1

Max(a, b) == IF a >= b THEN a ELSE b

Min(a, b) == IF a <= b THEN a ELSE b

Zeros(k) == [i \in 1..k |-> "0"]

StartsWith(s, prefix) == Len(s) >= Len(prefix) /\ SubSeq(s, 1, Len(prefix)) = prefix

Drop(s, n) == SubSeq(s, n + 1, Len(s))

\* the length of the longest prefix of s with every character in set
PrefixIn(s, set) ==
    CHOOSE n \in 0..Len(s) :
        /\ n = Len(s) \/ s[n + 1] \notin set
        /\ \A i \in 1..n : s[i] \in set

\* the length of s without its longest suffix with every character in set
SuffixIn(s, set) ==
    CHOOSE n \in 0..Len(s) :
        /\ n = 0 \/ s[n] \notin set
        /\ \A i \in (n + 1)..Len(s) : s[i] \in set

RECURSIVE NatToString(_)
NatToString(n) ==
    IF n < 10 THEN <<Digits[n + 1]>> ELSE NatToString(n \div 10) \o <<Digits[(n % 10) + 1]>>

PadLeft(s, width) == Zeros(width - Len(s)) \o s

StripZeros(s) == SubSeq(s, 1, SuffixIn(s, {"0"}))

\* F(x), with x evaluated before F is applied to it
Apply(F(_), x) == CHOOSE r \in {F(y) : y \in {x}} : TRUE

(***************************************************************************)
(* Natural numbers of any size, for the significands of JavaScript         *)
(* numbers: a sequence of limbs below Base, lowest first, with no zero     *)
(* limb at the top; <<>> is zero.  Carries are looked ahead, so that no    *)
(* operation recurses over the limbs.                                      *)
(***************************************************************************)
LimbBits == 15

Base == 2^LimbBits

Pow2(k) == 2^k

BitLen(n) == CHOOSE k \in 0..LimbBits : n < Pow2(k) /\ (k = 0 \/ n >= Pow2(k - 1))

Limb(a, i) == IF 1 <= i /\ i <= Len(a) THEN a[i] ELSE 0

BigTrim(a) == SubSeq(a, 1, SuffixIn(a, {0}))

Big(n) == BigTrim(<<n % Base, (n \div Base) % Base, n \div (Base * Base)>>)

\* a carry enters limb i of the sums s, each below 2 * Base
CarryInto(s, i) ==
    /\ i > 1
    /\ \/ s[i - 1] >= Base
       \/ /\ s[i - 1] = Base - 1
          /\ \E j \in 1..(i - 2) :
                s[j] >= Base /\ \A k \in (j + 1)..(i - 2) : s[k] = Base - 1

SumLimbs(s, n) ==
    BigTrim([i \in 1..n |-> (s[i] + IF CarryInto(s, i) THEN 1 ELSE 0) % Base])

AddLimbs(a, b, n) == SumLimbs([i \in 1..n |-> Limb(a, i) + Limb(b, i)], n)

BigAdd(a, b) == AddLimbs(a, b, Max(Len(a), Len(b)) + 1)

\* a borrow leaves limb i of the differences d, each above -Base
BorrowFrom(d, i) ==
    /\ i > 1
    /\ \/ d[i - 1] < 0
       \/ /\ d[i - 1] = 0
          /\ \E j \in 1..(i - 2) :
                d[j] < 0 /\ \A k \in (j + 1)..(i - 2) : d[k] = 0

DiffLimbs(d, n) ==
    BigTrim([i \in 1..n |-> (d[i] - (IF BorrowFrom(d, i) THEN 1 ELSE 0) + Base) % Base])

\* a - b for a >= b
BigSub(a, b) == DiffLimbs([i \in 1..Len(a) |-> a[i] - Limb(b, i)], Len(a))

\* the highest limb in which a and b of one length differ
TopDifference(a, b) ==
    CHOOSE i \in 1..Len(a) : a[i] # b[i] /\ \A j \in (i + 1)..Len(a) : a[j] = b[j]

CmpAt(a, b, i) == IF a[i] > b[i] THEN 1 ELSE 0 - 1

\* -1, 0 or 1 as a is below, equal to or above b
BigCmp(a, b) ==
    IF Len(a) > Len(b) THEN 1
    ELSE IF Len(a) < Len(b) THEN 0 - 1
    ELSE IF a = b THEN 0
    ELSE CmpAt(a, b, TopDifference(a, b))

\* a * k for 0 <= k <= Base
BigMulSmall(a, k) ==
    SumLimbs([i \in 1..(Len(a) + 1) |->
                 ((Limb(a, i) * k) % Base) + ((Limb(a, i - 1) * k) \div Base)],
             Len(a) + 1)

BigShl(a, n) ==
    IF a = <<>> THEN <<>>
    ELSE [i \in 1..(n \div LimbBits) |-> 0] \o BigMulSmall(a, Pow2(n % LimbBits))

ShrLimbs(a, q, r) ==
    BigTrim([i \in 1..(Len(a) - q) |->
                (Limb(a, i + q) \div Pow2(r))
                    + (Limb(a, i + q + 1) % Pow2(r)) * Pow2(LimbBits - r)])

BigShr(a, n) == ShrLimbs(a, n \div LimbBits, n % LimbBits)

BigBitLen(a) == IF a = <<>> THEN 0 ELSE LimbBits * (Len(a) - 1) + BitLen(a[Len(a)])

\* bit i of a, bit 0 the lowest
BigBit(a, i) == (Limb(a, (i \div LimbBits) + 1) \div Pow2(i % LimbBits)) % 2

\* the lowest n bits of a are all zero
BigLowZero(a, n) ==
    /\ \A i \in 1..(n \div LimbBits) : Limb(a, i) = 0
    /\ Limb(a, (n \div LimbBits) + 1) % Pow2(n % LimbBits) = 0

\* the number of zero bits below the lowest set bit of a # 0
BigTrailingZeros(a) ==
    CHOOSE i \in 0..(BigBitLen(a) - 1) : BigBit(a, i) = 1 /\ BigLowZero(a, i)

\* a * 10^p
RECURSIVE BigMulPow10(_, _)
BigMulPow10(a, p) ==
    IF p = 0 \/ a = <<>> THEN a
    ELSE IF p >= 16
    THEN BigMulPow10(BigMulSmall(BigMulSmall(BigMulSmall(BigMulSmall(a, 10000), 10000), 10000), 10000), p - 16)
    ELSE IF p >= 4 THEN BigMulPow10(BigMulSmall(a, 10000), p - 4)
    ELSE BigMulPow10(BigMulSmall(a, 10), p - 1)

\* a \div d and a % d for a of few limbs and 0 < d <= Base, from the top limb
RECURSIVE BigModSmallFrom(_, _, _)
BigModSmallFrom(a, d, i) ==
    IF i > Len(a) THEN 0 ELSE (BigModSmallFrom(a, d, i + 1) * Base + a[i]) % d

BigModSmall(a, d) == BigModSmallFrom(a, d, 1)

BigDivSmall(a, d) ==
    BigTrim([i \in 1..Len(a) |-> (BigModSmallFrom(a, d, i + 1) * Base + a[i]) \div d])

\* the quotient limb of r by b, for r < b * Base and b with its top bit set:
\* the two top limbs of r divided by the top limb of b are at most two above it
LimbEstimate(b, r) ==
    Min((Limb(r, Len(b) + 1) * Base + Limb(r, Len(b))) \div b[Len(b)], Base - 1)

QuotientLimb(b, r) ==
    CHOOSE d \in Max(LimbEstimate(b, r) - 2, 0)..LimbEstimate(b, r) :
        BigCmp(BigMulSmall(b, d), r) <= 0 /\ BigCmp(BigMulSmall(b, d + 1), r) > 0

\* long division by b of the limbs of a from limb i down, r being what is
\* left of the limbs above i
RECURSIVE BigDivFrom(_, _, _, _)
RECURSIVE BigDivLimb(_, _, _, _, _)
BigDivFrom(a, b, i, r) ==
    IF i = 0 THEN [q |-> <<>>, r |-> r]
    ELSE Apply(LAMBDA r1 : BigDivLimb(a, b, i, r1, QuotientLimb(b, r1)),
               BigTrim(<<a[i]>> \o r))

BigDivLimb(a, b, i, r, d) ==
    Apply(LAMBDA rest : [q |-> rest.q \o <<d>>, r |-> rest.r],
          BigDivFrom(a, b, i - 1, BigSub(r, BigMulSmall(b, d))))

\* the top Len(b) - 1 limbs of a are below b and give no quotient limb
BigDivTop(a, b) ==
    BigDivFrom(a, b, Len(a) - Len(b) + 1, SubSeq(a, Len(a) - Len(b) + 2, Len(a)))

\* a and b shifted until the top bit of b's top limb is set
BigDivShifted(a, b, shift) ==
    Apply(LAMBDA dm : [q |-> BigTrim(dm.q), r |-> BigShr(dm.r, shift)],
          BigDivTop(BigShl(a, shift), BigShl(b, shift)))

\* a \div b and a % b, for b # 0
BigDivMod(a, b) ==
    IF Len(a) < Len(b) THEN [q |-> <<>>, r |-> a]
    ELSE BigDivShifted(a, b, LimbBits - BitLen(b[Len(b)]))

\* the value of the four digits of s from position i
FourDigits(s, i) ==
    1000 * DigitVal(s[i]) + 100 * DigitVal(s[i + 1]) + 10 * DigitVal(s[i + 2]) + DigitVal(s[i + 3])

\* the value of decimal digits whose number is a multiple of four
RECURSIVE BigFromDigitsFrom(_, _, _)
BigFromDigitsFrom(s, i, acc) ==
    IF i > Len(s) THEN acc
    ELSE IF acc = <<>> THEN BigFromDigitsFrom(s, i + 4, Big(FourDigits(s, i)))
    ELSE BigFromDigitsFrom(s, i + 4, BigAdd(BigMulSmall(acc, 10000), Big(FourDigits(s, i))))

BigFromDigits(s) == BigFromDigitsFrom(PadLeft(s, 4 * ((Len(s) + 3) \div 4)), 1, <<>>)

\* the decimal digits of a of few limbs, none for zero, four at a time
RECURSIVE BigToDigits(_)
BigToDigits(a) ==
    IF a = <<>> THEN <<>>
    ELSE IF Len(a) = 1 THEN NatToString(a[1])
    ELSE BigToDigits(BigDivSmall(a, 10000)) \o PadLeft(NatToString(BigModSmall(a, 10000)), 4)

(***************************************************************************)
(* JavaScript numbers are IEEE-754 doubles: NaN, the two infinities, the   *)
(* two zeros, or (-1)^neg * m * 2^e with m odd and below 2^53 and          *)
(* e >= MinExponent.  Every operation gives the exact result rounded to    *)
(* the nearest double, ties to the even significand.                       *)
(***************************************************************************)
MantissaBits == 53

MinExponent == 0 - 1074

MaxBits == 1024

NaN == [nan |-> TRUE, inf |-> FALSE, neg |-> FALSE, m |-> <<>>, e |-> 0]

Infinity(neg) == [nan |-> FALSE, inf |-> TRUE, neg |-> neg, m |-> <<>>, e |-> 0]

Zero(neg) == [nan |-> FALSE, inf |-> FALSE, neg |-> neg, m |-> <<>>, e |-> 0]

IsFinite(a) == ~a.nan /\ ~a.inf

Odd(neg, M, e, zeros) ==
    [nan |-> FALSE, inf |-> FALSE, neg |-> neg, m |-> BigShr(M, zeros), e |-> e + zeros]

\* M * 2^e, which needs no rounding
Finite(neg, M, e) ==
    IF M = <<>> THEN Zero(neg)
    ELSE IF BigBitLen(M) + e > MaxBits THEN Infinity(neg)
    ELSE Odd(neg, M, e, BigTrailingZeros(M))

RoundUp(N, drop) ==
    BigBit(N, drop - 1) = 1 /\ (BigBit(N, drop) = 1 \/ ~BigLowZero(N, drop - 1))

DropBits(neg, N, e, drop) ==
    IF drop = 0 THEN Finite(neg, N, e)
    ELSE Finite(neg, BigAdd(BigShr(N, drop), IF RoundUp(N, drop) THEN <<1>> ELSE <<>>), e + drop)

\* the double nearest to N * 2^e
RoundToDouble(neg, N, e) ==
    DropBits(neg, N, e, Max(Max(BigBitLen(N) - MantissaBits, MinExponent - e), 0))

\* twice the quotient, plus one when there is a remainder
Sticky(dm) == BigAdd(BigShl(dm.q, 1), IF dm.r = <<>> THEN <<>> ELSE <<1>>)

\* S / den from the quotient of S * 2^k, k leaving the quotient bits to spare
DivideToDouble(neg, S, den, k) ==
    Apply(LAMBDA dm : RoundToDouble(neg, Sticky(dm), 0 - k - 1),
          BigDivMod(BigShl(S, k), den))

ScaleToDouble(neg, S, den) ==
    DivideToDouble(neg, S, den, Max(0, 3 + MantissaBits + BigBitLen(den) - BigBitLen(S)))

\* the double nearest to S * 10^p
DecToDouble(neg, S, p) ==
    IF S = <<>> THEN Zero(neg)
    ELSE IF p >= 0
    THEN (IF p > 400 THEN Infinity(neg)
          ELSE Apply(LAMBDA N : RoundToDouble(neg, N, 0), BigMulPow10(S, p)))
    ELSE IF (BigBitLen(S) \div 3) + 1 + p < 0 - 330 THEN Zero(neg)
    ELSE Apply(LAMBDA den : ScaleToDouble(neg, S, den), BigMulPow10(<<1>>, 0 - p))

Number(n) == Finite(n < 0, Big(IF n < 0 THEN 0 - n ELSE n), 0)

Negate(a) == IF a.nan THEN a ELSE [a EXCEPT !.neg = ~@]

Abs(a) == IF a.nan THEN a ELSE [a EXCEPT !.neg = FALSE]

\* where a number stands: -Infinity, negative, zero, positive, Infinity
Class(a) ==
    IF a.inf THEN (IF a.neg THEN 0 - 2 ELSE 2)
    ELSE IF a.m = <<>> THEN 0
    ELSE IF a.neg THEN 0 - 1 ELSE 1

CompareMagnitude(a, b) ==
    IF BigBitLen(a.m) + a.e > BigBitLen(b.m) + b.e THEN 1
    ELSE IF BigBitLen(a.m) + a.e < BigBitLen(b.m) + b.e THEN 0 - 1
    ELSE BigCmp(BigShl(a.m, a.e - Min(a.e, b.e)), BigShl(b.m, b.e - Min(a.e, b.e)))

Compare(a, b) ==
    IF Class(a) > Class(b) THEN 1
    ELSE IF Class(a) < Class(b) THEN 0 - 1
    ELSE IF Class(a) = 1 THEN CompareMagnitude(a, b)
    ELSE IF Class(a) = 0 - 1 THEN CompareMagnitude(b, a)
    ELSE 0

Gt(a, b) == ~a.nan /\ ~b.nan /\ Compare(a, b) > 0

Le(a, b) == ~a.nan /\ ~b.nan /\ Compare(a, b) <= 0

SubMagnitudes(aneg, bneg, A, B, e, cmp) ==
    IF cmp = 0 THEN Zero(FALSE)
    ELSE IF cmp > 0 THEN RoundToDouble(aneg, BigSub(A, B), e)
    ELSE RoundToDouble(bneg, BigSub(B, A), e)

AddAligned(aneg, bneg, A, B, e) ==
    IF aneg = bneg THEN RoundToDouble(aneg, BigAdd(A, B), e)
    ELSE SubMagnitudes(aneg, bneg, A, B, e, BigCmp(A, B))

AddFinite(a, b, e) ==
    AddAligned(a.neg, b.neg, BigShl(a.m, a.e - e), BigShl(b.m, b.e - e), e)

Add(a, b) ==
    IF a.nan \/ b.nan THEN NaN
    ELSE IF a.inf /\ b.inf THEN (IF a.neg = b.neg THEN a ELSE NaN)
    ELSE IF a.inf THEN a
    ELSE IF b.inf THEN b
    ELSE IF a.m = <<>> /\ b.m = <<>> THEN Zero(a.neg /\ b.neg)
    ELSE IF a.m = <<>> THEN b
    ELSE IF b.m = <<>> THEN a
    ELSE AddFinite(a, b, Min(a.e, b.e))

Sub(a, b) == Add(a, Negate(b))

(***************************************************************************)
(* Number::toString: the fewest decimal digits that read back as the same  *)
(* double, the closest such digits when several do.                        *)
(***************************************************************************)
MaxDigits == 17

\* -1, 0 or 1 as m * 2^e is below, equal to or above 10^p
ComparePow10(m, e, p) ==
    BigCmp(BigShl(BigMulPow10(m, Max(0 - p, 0)), Max(e, 0)),
           BigShl(BigMulPow10(<<1>>, Max(p, 0)), Max(0 - e, 0)))

\* n with 10^(n-1) <= m * 2^e < 10^n, near (bits - 1) * log10(2)
ExponentNear(m, e, guess) ==
    CHOOSE n \in (guess - 1)..(guess + 3) :
        ComparePow10(m, e, n - 1) >= 0 /\ ComparePow10(m, e, n) < 0

DecimalExponent(m, e) ==
    ExponentNear(m, e, ((BigBitLen(m) + e - 1) * 30103) \div 100000)

RoundTrips(D, p, v) == DecToDouble(FALSE, D, p) = v

PickFrom(lo, hi, loOK, hiOK, cmp) ==
    IF loOK /\ (~hiOK \/ cmp < 0 \/ (cmp = 0 /\ Limb(lo, 1) % 2 = 0)) THEN lo
    ELSE IF hiOK THEN hi
    ELSE <<>>

Pick(dm, den, p, v) ==
    PickFrom(dm.q, BigAdd(dm.q, <<1>>),
             RoundTrips(dm.q, p, v), RoundTrips(BigAdd(dm.q, <<1>>), p, v),
             BigCmp(BigMulSmall(dm.r, 2), den))

CandidateFrom(v, p, num, den) ==
    Apply(LAMBDA dm : Pick(dm, den, p, v), BigDivMod(num, den))

\* the integer D of k digits, or 10^k, nearest to v / 10^(n-k) among those with
\* D * 10^(n-k) reading back as v; <<>> when there is none
Candidate(v, n, k) ==
    CandidateFrom(v, n - k,
                  BigShl(BigMulPow10(v.m, Max(k - n, 0)), Max(v.e, 0)),
                  BigShl(BigMulPow10(<<1>>, Max(n - k, 0)), Max(0 - v.e, 0)))

DigitsOf(ds, n, k) == [digits |-> StripZeros(ds), n |-> n + Len(ds) - k]

FewestDigits(v, n) ==
    CHOOSE k \in 1..MaxDigits :
        Candidate(v, n, k) # <<>> /\ \A j \in 1..(k - 1) : Candidate(v, n, j) = <<>>

ShortestFrom(v, n, k) == DigitsOf(BigToDigits(Candidate(v, n, k)), n, k)

ShortestIn(v, n) == Apply(LAMBDA k : ShortestFrom(v, n, k), FewestDigits(v, n))

\* digits d1..dk and n with v = 0.d1..dk * 10^n, for a finite v > 0
ShortestDigits(v) == Apply(LAMBDA n : ShortestIn(v, n), DecimalExponent(v.m, v.e))

DecimalForm(ds, n) ==
    IF Len(ds) <= n THEN ds \o Zeros(n - Len(ds))
    ELSE IF n > 0 THEN SubSeq(ds, 1, n) \o <<".">> \o SubSeq(ds, n + 1, Len(ds))
    ELSE <<"0", ".">> \o Zeros(0 - n) \o ds

ExponentForm(ds, n) ==
    <<ds[1]>> \o (IF Len(ds) > 1 THEN <<".">> \o Tail(ds) ELSE <<>>)
        \o (IF n - 1 < 0 THEN <<"e", "-">> \o NatToString(1 - n)
            ELSE <<"e", "+">> \o NatToString(n - 1))

FormatDigits(s) ==
    IF s.n > 21 \/ s.n <= 0 - 6 THEN ExponentForm(s.digits, s.n)
    ELSE DecimalForm(s.digits, s.n)

InfinityLiteral == <<"I", "n", "f", "i", "n", "i", "t", "y">>

NumberToString(a) ==
    IF a.nan THEN <<"N", "a", "N">>
    ELSE IF a.inf THEN (IF a.neg THEN <<"-">> ELSE <<>>) \o InfinityLiteral
    ELSE IF a.m = <<>> THEN <<"0">>
    ELSE (IF a.neg THEN <<"-">> ELSE <<>>) \o FormatDigits(ShortestDigits(Abs(a)))

(***************************************************************************)
(* Number.prototype.toLocaleString('en-IN'): at most three fraction        *)
(* digits, halves rounded away from zero, the integer part grouped as      *)
(* thousands and then hundreds (12,34,567).                                *)
(***************************************************************************)
MaxFractionDigits == 3

WholePart(ds, n) ==
    IF n <= 0 THEN <<>> ELSE SubSeq(ds, 1, Min(n, Len(ds))) \o Zeros(n - Len(ds))

FractionPart(ds, n) ==
    IF n <= 0 THEN Zeros(0 - n) \o ds ELSE SubSeq(ds, n + 1, Len(ds))

\* the decimal digits s of a number, with one added to the number
IncrementAt(s, i) ==
    IF i = 0 THEN <<"1">> \o Zeros(Len(s))
    ELSE SubSeq(s, 1, i - 1) \o <<Digits[DigitVal(s[i]) + 2]>> \o Zeros(Len(s) - i)

Increment(s) == IncrementAt(s, SuffixIn(s, {"9"}))

\* the digits of whole.frac rounded to MaxFractionDigits fraction digits,
\* the last MaxFractionDigits of them being the fraction
RoundedDigits(whole, frac) ==
    IF Len(frac) > MaxFractionDigits /\ DigitVal(frac[MaxFractionDigits + 1]) >= 5
    THEN Increment(whole \o SubSeq(frac, 1, MaxFractionDigits))
    ELSE whole \o SubSeq(frac \o Zeros(MaxFractionDigits), 1, MaxFractionDigits)

\* the character r places from the right of the grouped digits s
GroupedAt(s, r) ==
    IF r < 3 THEN s[Len(s) - r]
    ELSE IF (r - 3) % 3 = 0 THEN ","
    ELSE s[Len(s) - (r - (((r - 3) \div 3) + 1))]

GroupedLen(s) == IF Len(s) <= 3 THEN Len(s) ELSE Len(s) + ((Len(s) - 2) \div 2)

GroupIndian(s) == [j \in 1..GroupedLen(s) |-> GroupedAt(s, GroupedLen(s) - j)]

WithFraction(whole, frac) ==
    (IF whole = <<>> THEN <<"0">> ELSE GroupIndian(whole))
        \o (IF frac = <<>> THEN <<>> ELSE <<".">> \o frac)

LocaleDigits(r) ==
    WithFraction(SubSeq(r, 1, Len(r) - MaxFractionDigits),
                 StripZeros(SubSeq(r, Len(r) - MaxFractionDigits + 1, Len(r))))

LocaleForm(s) == LocaleDigits(RoundedDigits(WholePart(s.digits, s.n), FractionPart(s.digits, s.n)))

toLocaleString(a) ==
    IF a.nan THEN <<"N", "a", "N">>
    ELSE (IF a.neg THEN <<"-">> ELSE <<>>)
            \o (IF a.inf THEN <<"U+221E">>
                ELSE IF a.m = <<>> THEN <<"0">>
                ELSE LocaleForm(ShortestDigits(Abs(a))))

(***************************************************************************)
(* parseFloat: leading white space is skipped, then the longest prefix that *)
(* is a StrDecimalLiteral (sign, Infinity or digits with fraction and       *)
(* exponent) is converted to the nearest double; what follows it is        *)
(* ignored; no such prefix gives NaN.                                      *)
(***************************************************************************)
\* StrWhiteSpaceChar: TAB, LF, VT, FF, CR, SP, NBSP, ZWNBSP, the space
\* separators and the line and paragraph separators.  A character that cannot
\* be written in a string of this module stands as its code point.
WhiteSpace ==
    {"\t", "\n", "", "\f", "\r", " ", " ", "﻿", " ",
     "U+2000", "U+2001", "U+2002", "U+2003", "U+2004", "U+2005", "U+2006",
     "U+2007", "U+2008", "U+2009", "U+200A", "U+2028", "U+2029", "U+202F",
     "U+205F", "U+3000"}

TrimStart(s) == Drop(s, PrefixIn(s, WhiteSpace))

TrimEnd(s) == SubSeq(s, 1, SuffixIn(s, WhiteSpace))

DecimalDigits == {Digits[i] : i \in 1..10}

LeadingDigits(s) == PrefixIn(s, DecimalDigits)

\* Every double but zero and the infinities lies between 10^-DecimalRange
\* and 10^DecimalRange.
DecimalRange == 400

\* The value of an exponent's digits, or `limit` when it is greater.  The
\* characters before the exponent, n of them, denote zero or a number from
\* 10^-n up to 10^n, so every exponent from limit = n + DecimalRange on gives
\* the same double: zero or an infinity.
RECURSIVE ExponentValue(_, _, _, _)
ExponentValue(s, i, acc, limit) ==
    IF i > Len(s) THEN acc
    ELSE IF acc > limit \div 10 THEN limit
    ELSE ExponentValue(s, i + 1, 10 * acc + DigitVal(s[i]), limit)

ExponentDigits(body, sign, prefixLen, n3, limit) ==
    IF n3 = 0 THEN [len |-> 0, value |-> 0]
    ELSE [len |-> prefixLen + n3,
          value |-> sign * ExponentValue(SubSeq(body, 1, n3), 1, 0, limit)]

ExponentSigned(afterE, limit) ==
    IF Len(afterE) > 0 /\ afterE[1] \in {"-", "+"}
    THEN ExponentDigits(Tail(afterE), IF afterE[1] = "-" THEN 0 - 1 ELSE 1, 2,
                        LeadingDigits(Tail(afterE)), limit)
    ELSE ExponentDigits(afterE, 1, 1, LeadingDigits(afterE), limit)

\* The exponent part rest starts with, after n characters of digits.
ExponentPart(rest, n) ==
    IF Len(rest) > 0 /\ rest[1] \in {"e", "E"}
    THEN ExponentSigned(Tail(rest), n + DecimalRange)
    ELSE [len |-> 0, value |-> 0]

FractionLen(s) == IF Len(s) > 0 /\ s[1] = "." THEN 1 + LeadingDigits(Tail(s)) ELSE 0

\* the longest prefix of s that is a StrDecimalLiteral without sign: its
\* length (0 when there is none), its digits, and the power of ten dividing them
Literal(s, n1, fracLen, exponent) ==
    [len |-> IF n1 = 0 /\ fracLen <= 1 THEN 0 ELSE n1 + fracLen + exponent.len,
     digits |-> SubSeq(s, 1, n1) \o SubSeq(s, n1 + 2, n1 + fracLen),
     scale |-> (IF fracLen = 0 THEN 0 ELSE fracLen - 1) - exponent.value]

Mantissa(s, n1, fracLen) ==
    Literal(s, n1, fracLen, ExponentPart(Drop(s, n1 + fracLen), n1 + fracLen))

IntegerPart(s, n1) == Mantissa(s, n1, FractionLen(Drop(s, n1)))

DecimalLiteral(s) == IntegerPart(s, LeadingDigits(s))

UnsignedValue(neg, body, lit) ==
    IF StartsWith(body, InfinityLiteral) THEN Infinity(neg)
    ELSE IF lit.len = 0 THEN NaN
    ELSE DecToDouble(neg, BigFromDigits(lit.digits), 0 - lit.scale)

SignedValue(t) ==
    IF Len(t) > 0 /\ t[1] \in {"-", "+"}
    THEN UnsignedValue(t[1] = "-", Tail(t), DecimalLiteral(Tail(t)))
    ELSE UnsignedValue(FALSE, t, DecimalLiteral(t))

parseFloat(s) == SignedValue(TrimStart(s))

(***************************************************************************)
(* isNaN(string): the string converts to NaN, that is, trimmed of white    *)
(* space it is neither empty, nor a signed decimal literal or Infinity,    *)
(* nor an unsigned 0x, 0o or 0b literal.                                   *)
(***************************************************************************)
HexDigits ==
    DecimalDigits \cup {"a", "b", "c", "d", "e", "f", "A", "B", "C", "D", "E", "F"}

OctalDigits == {Digits[i] : i \in 1..8}

BinaryDigits == {"0", "1"}

AllIn(s, set) == Len(s) > 0 /\ \A i \in 1..Len(s) : s[i] \in set

RadixLiteral(t) ==
    /\ Len(t) > 2
    /\ t[1] = "0"
    /\ \/ t[2] \in {"x", "X"} /\ AllIn(Drop(t, 2), HexDigits)
       \/ t[2] \in {"o", "O"} /\ AllIn(Drop(t, 2), OctalDigits)
       \/ t[2] \in {"b", "B"} /\ AllIn(Drop(t, 2), BinaryDigits)

WholeDecimal(body, lit) == body = InfinityLiteral \/ (lit.len > 0 /\ lit.len = Len(body))

SignedDecimal(t) ==
    IF t[1] \in {"-", "+"} THEN WholeDecimal(Tail(t), DecimalLiteral(Tail(t)))
    ELSE WholeDecimal(t, DecimalLiteral(t))

IsNumeric(t) == t = <<>> \/ RadixLiteral(t) \/ SignedDecimal(t)

isNaN(s) == ~IsNumeric(TrimEnd(TrimStart(s)))

RemoveCommas(s) == SelectSeq(s, LAMBDA c : c # ",")

FormatNumeric(old, value) ==
    IF ~isNaN(value) /\ value # <<>> THEN toLocaleString(parseFloat(value)) ELSE old

formatCurrency(value) == FormatNumeric(value, RemoveCommas(value))

(***************************************************************************)
(* The ledger's amounts are exact decimals (specification, section 6):     *)
(* num / den with den a power of ten, in lowest such terms; nan marks a    *)
(* field that is not a number.                                             *)
(***************************************************************************)
DecNaN == [nan |-> TRUE, num |-> 0, den |-> 1]

RECURSIVE Pow10(_)
Pow10(k) == IF k = 0 THEN 1 ELSE 10 * Pow10(k - 1)

RECURSIVE Log10(_)
Log10(d) == IF d < 10 THEN 0 ELSE 1 + Log10(d \div 10)

\* num / den with the common factors of ten removed
RECURSIVE Decimal(_, _)
Decimal(num, den) ==
    IF num = 0 THEN [nan |-> FALSE, num |-> 0, den |-> 1]
    ELSE IF den > 1 /\ num % 10 = 0 THEN Decimal(num \div 10, den \div 10)
    ELSE [nan |-> FALSE, num |-> num, den |-> den]

Dec(n) == Decimal(n, 1)

DecGt(a, b) == ~a.nan /\ ~b.nan /\ a.num * b.den > b.num * a.den

DecLe(a, b) == ~a.nan /\ ~b.nan /\ a.num * b.den <= b.num * a.den

DecAdd(a, b) == Decimal(a.num * b.den + b.num * a.den, a.den * b.den)

DecSub(a, b) == Decimal(a.num * b.den - b.num * a.den, a.den * b.den)

DecTimes(n, a) == Decimal(n * a.num, a.den)

DecNegate(a) == IF a.nan THEN a ELSE [a EXCEPT !.num = 0 - @]

RECURSIVE DecValue(_)
DecValue(s) ==
    IF Len(s) = 0 THEN 0
    ELSE 10 * DecValue(SubSeq(s, 1, Len(s) - 1)) + DigitVal(s[Len(s)])

\* The decimal a taken-apart literal denotes: digits / 10^scale
LiteralValue(lit) ==
    IF lit.scale >= 0 THEN Decimal(DecValue(lit.digits), Pow10(lit.scale))
    ELSE Decimal(DecValue(lit.digits) * Pow10(0 - lit.scale), 1)

\* A form field read as a number by the server: the whole field must be a
\* signed decimal literal, anything else is malformed.
WholeLiteral(body, lit) ==
    IF lit.len = 0 \/ lit.len # Len(body) THEN DecNaN ELSE LiteralValue(lit)

parseField(s) ==
    IF Len(s) > 0 /\ s[1] = "-" THEN DecNegate(WholeLiteral(Tail(s), DecimalLiteral(Tail(s))))
    ELSE IF Len(s) > 0 /\ s[1] = "+" THEN WholeLiteral(Tail(s), DecimalLiteral(Tail(s)))
    ELSE WholeLiteral(s, DecimalLiteral(s))

\* The JavaScript number a decimal of the ledger becomes when the page the
\* server renders carries it as a numeric literal: the nearest double.
RenderedNumber(d) ==
    DecToDouble(d.num < 0, Big(IF d.num < 0 THEN 0 - d.num ELSE d.num), 0 - Log10(d.den))

(***************************************************************************)
(* Inputs, and the conversions of the values the specifications below      *)
(* reach, tabulated once.                                                  *)
(***************************************************************************)
\* The salaries submitted: -1 (refused) and 0..MaxSalary.
SalaryInputs == {Dec(n) : n \in (0 - 1)..MaxSalary}

EmployeeIds == 1..MaxEmployees

\* The employee ids the rows of the page offer for editing.
EditIds == 1..MaxEditIds

\* What the operator may leave in the amount field: empty, non-numeric, a
\* number followed by a letter, a negative number, tenths, and 0..MaxSalary+1.
AmountInputs ==
    {<<>>, <<"a">>, <<"1", "a">>, <<"-", "1">>, <<"0", ".", "2">>, <<"0", ".", "8">>}
        \cup {NatToString(n) : n \in 0..(MaxSalary + 1)}

\* The amounts the requests of other clients carry, which were posted
\* whatever those clients checked.
RawInputs == {<<"0", ".", "8">>, NatToString(MaxSalary), NatToString(MaxSalary + 1)}

\* The salaries, sums and balances of the ledger, in tenths.
LedgerValues == {Decimal(t, 10) : t \in (0 - 10 * MaxSalary - 10)..(10 * MaxSalary + 10)}

RenderedTable == [d \in LedgerValues |-> RenderedNumber(d)]

Rendered(d) == IF d \in LedgerValues THEN RenderedTable[d] ELSE RenderedNumber(d)

\* The salary of employee id in the JSON the server answers with.
SalaryOf(id) == Number(10000 * id)

\* The balances openWithdrawalModal computes from the rows of the page.
RowBalances ==
    {Sub(RenderedTable[Dec(s)], RenderedTable[Decimal(w, 10)]) :
        s \in 0..MaxSalary, w \in 0..(10 * MaxSalary)}

\* The numbers the page holds: what the rows carry, balances, employee ids,
\* salaries.
PageNumbers ==
    {RenderedTable[d] : d \in LedgerValues}
        \cup RowBalances
        \cup {Number(i) : i \in EmployeeIds \cup EditIds}
        \cup {SalaryOf(id) : id \in EditIds}

NumberToStringTable == [a \in PageNumbers |-> NumberToString(a)]

NumberString(a) == IF a \in PageNumbers THEN NumberToStringTable[a] ELSE NumberToString(a)

\* The strings the form fields hold: the amounts typed and the numbers written.
FieldStrings == AmountInputs \cup {NumberToStringTable[a] : a \in PageNumbers}

ParseFloatTable == [s \in FieldStrings |-> parseFloat(s)]

ParseFloat(s) == IF s \in FieldStrings THEN ParseFloatTable[s] ELSE parseFloat(s)

ParseFieldTable == [s \in FieldStrings |-> parseField(s)]

ParseField(s) == IF s \in FieldStrings THEN ParseFieldTable[s] ELSE parseField(s)

\* The salary field as openEditModal writes it and as formatCurrency leaves it.
SalaryStrings ==
    {NumberToStringTable[SalaryOf(id)] : id \in EditIds}
        \cup {formatCurrency(NumberToStringTable[SalaryOf(id)]) : id \in EditIds}

FormatCurrencyTable == [s \in SalaryStrings |-> formatCurrency(s)]

FormatCurrency(s) == IF s \in SalaryStrings THEN FormatCurrencyTable[s] ELSE formatCurrency(s)

(***************************************************************************)
(* Ledger Service (server side).  Salaries and amounts are exact decimals; *)
(* employee ids are integers.                                              *)
(***************************************************************************)
RECURSIVE SumAmounts(_, _)
SumAmounts(bag, S) ==
    IF S = {} THEN Dec(0)
    ELSE LET r == CHOOSE x \in S : TRUE
         IN  DecAdd(DecTimes(bag[r], r.amount), SumAmounts(bag, S \ {r}))

TransactionsOf(e) == {r \in DOMAIN transactions : r.employee_id = e}

withdrawn(e) == SumAmounts(transactions, TransactionsOf(e))

remaining(e) == DecSub(employees[e].monthly_salary, withdrawn(e))

Ledger(err, emps, next, txs) ==
    [error |-> err, employees |-> emps, nextEmployeeId |-> next, transactions |-> txs]

Unchanged(err) == Ledger(err, employees, nextEmployeeId, transactions)

addEmployee(monthly_salary) ==
    IF ~DecLe(Dec(0), monthly_salary) THEN Unchanged("ValidationError")
    ELSE Ledger("none",
                employees @@ (nextEmployeeId :> [monthly_salary |-> monthly_salary]),
                nextEmployeeId + 1, transactions)

editEmployee(id, monthly_salary) ==
    IF id \notin DOMAIN employees THEN Unchanged("NotFoundError")
    ELSE IF ~DecLe(Dec(0), monthly_salary) THEN Unchanged("ValidationError")
    ELSE Ledger("none",
                [employees EXCEPT ![id] = [monthly_salary |-> monthly_salary]],
                nextEmployeeId, transactions)

\* Faulty variant of deleteEmployee: the employee's transactions are left behind.
deleteEmployee_NoCascade(id) ==
    IF id \notin DOMAIN employees THEN Unchanged("NotFoundError")
    ELSE Ledger("none",
                [e \in DOMAIN employees \ {id} |-> employees[e]],
                nextEmployeeId,
                transactions)

deleteEmployee(id) ==
    IF id \notin DOMAIN employees THEN Unchanged("NotFoundError")
    ELSE Ledger("none",
                [e \in DOMAIN employees \ {id} |-> employees[e]],
                nextEmployeeId,
                [r \in {x \in DOMAIN transactions : x.employee_id # id} |-> transactions[r]])

\* recordWithdrawal on the fields as the server parsed them.
recordParsed(id, amt) ==
    IF id.nan \/ id.den # 1 \/ id.num \notin DOMAIN employees
    THEN Unchanged("NotFoundError")
    ELSE IF amt.nan \/ DecLe(amt, Dec(0)) \/ DecGt(amt, remaining(id.num))
         THEN Unchanged("ValidationError")
    ELSE Ledger("none", employees, nextEmployeeId,
                transactions (+) SetToBag({[employee_id |-> id.num, amount |-> amt]}))

recordWithdrawal(employee_id, amount) ==
    recordParsed(ParseField(employee_id), ParseField(amount))

RECURSIVE SumSalaries(_)
SumSalaries(S) ==
    IF S = {} THEN Dec(0)
    ELSE LET e == CHOOSE x \in S : TRUE
         IN  DecAdd(employees[e].monthly_salary, SumSalaries(S \ {e}))

\* Faulty variant of getDashboardSummary: the employees ever created are counted.
getDashboardSummary_CountsDeleted ==
    LET total_salary == SumSalaries(DOMAIN employees)
        total_withdrawn == SumAmounts(transactions, DOMAIN transactions)
    IN  [employee_count |-> nextEmployeeId - 1,
         total_salary |-> total_salary,
         total_withdrawn |-> total_withdrawn,
         total_remaining |-> DecSub(total_salary, total_withdrawn)]

getDashboardSummary ==
    LET total_salary == SumSalaries(DOMAIN employees)
        total_withdrawn == SumAmounts(transactions, DOMAIN transactions)
    IN  [employee_count |-> Cardinality(DOMAIN employees),
         total_salary |-> total_salary,
         total_withdrawn |-> total_withdrawn,
         total_remaining |-> DecSub(total_salary, total_withdrawn)]

(***************************************************************************)
(* Browser side: script.js.  Its numbers are JavaScript numbers.           *)
(***************************************************************************)
\* The withdrawal modal of a freshly loaded page.
NoModal == [active |-> FALSE, openedFor |-> 0, withdrawal_employee_id |-> <<>>, max |-> <<>>]

\* The rows of the page as the server renders them now: for every employee
\* the arguments its withdrawal icon passes to openWithdrawalModal.
RenderedRows ==
    [e \in DOMAIN employees |->
        [totalSalary |-> Rendered(employees[e].monthly_salary),
         withdrawn |-> Rendered(withdrawn(e))]]

\* The tab has posted no withdrawal form.
NoPost == <<>>

\* The page as it is when it has just loaded with the given rows.  post is
\* the withdrawal form the tab has posted, answer what became of it
\* ("pending": it is on its way to the server), and overlap whether a
\* request of another tab was on its way at the same time.
PageOf(rows) ==
    [rows |-> rows, navigating |-> FALSE, post |-> NoPost, answer |-> "none",
     overlap |-> FALSE] @@ NoModal

\* openWithdrawalModal(employeeId, employeeName, totalSalary, withdrawn): the
\* hidden id field, the amount field's max and the modal's class.
openWithdrawalModal(employeeId, totalSalary, withdrawnArg) ==
    LET remainingArg == Sub(totalSalary, withdrawnArg)
    IN  [active |-> TRUE,
         openedFor |-> employeeId,
         withdrawal_employee_id |-> NumberString(Number(employeeId)),
         max |-> NumberString(remainingArg)]

\* closeWithdrawalModal(): the modal's class goes, its fields stay.
closeWithdrawalModal(page) == [page EXCEPT !.active = FALSE]

\* The two comparisons of validateWithdrawal on the numbers it parsed.
validateAmount(amount, maxAmount) ==
    IF Gt(amount, maxAmount) THEN FALSE
    ELSE IF Le(amount, Number(0)) THEN FALSE
    ELSE TRUE

\* Faulty variant of validateWithdrawal: the comparison with max is missing.
validateWithdrawal_NoMaxCheck(value, max) ==
    IF Le(ParseFloat(value), Number(0)) THEN FALSE ELSE TRUE

\* Faulty variant of validateWithdrawal: an amount equal to max is refused.
validateWithdrawal_RejectsMax(value, max) ==
    LET amount == ParseFloat(value)
        maxAmount == ParseFloat(max)
    IN  IF Gt(amount, maxAmount) \/ (Le(amount, maxAmount) /\ Le(maxAmount, amount))
        THEN FALSE
        ELSE IF Le(amount, Number(0)) THEN FALSE
        ELSE TRUE

\* Faulty variant of validateWithdrawal: zero is let through.
validateWithdrawal_AllowsZero(value, max) ==
    LET amount == ParseFloat(value)
        maxAmount == ParseFloat(max)
    IN  IF Gt(amount, maxAmount) THEN FALSE
        ELSE IF Le(amount, Number(0 - 1)) THEN FALSE
        ELSE TRUE

\* validateWithdrawal(): value and max are the amount field's value and max.
validateWithdrawal(value, max) == validateAmount(ParseFloat(value), ParseFloat(max))

\* confirmDelete(employeeName): the answer given in the confirm() dialog.
confirmDelete(answer) == answer

(***************************************************************************)
(* State machine.                                                          *)
(***************************************************************************)
NoSummary ==
    [employee_count |-> 0, total_salary |-> Dec(0), total_withdrawn |-> Dec(0),
     total_remaining |-> Dec(0)]

\* A step that decided a withdrawal or served a dashboard: the tab it came
\* from ("elsewhere": another client), the employee, the amount field's
\* value and what became of it.
Step(op, tab, employee, value, outcome, result) ==
    [op |-> op, tab |-> tab, employee |-> employee, value |-> value,
     outcome |-> outcome, summary |-> result]

NoStep == Step("none", "none", 0, <<>>, "none", NoSummary)

\* The forms of the page; the search and filter forms have no submit button,
\* the others have one, with the label the page gives it.
Forms == {"withdrawalForm", "addEmployeeForm", "searchForm", "filterForm"}

OriginalLabel == [withdrawalForm |-> "Record Withdrawal", addEmployeeForm |-> "Add Employee"]

Spinner == "Processing..."

\* The submit buttons of a freshly loaded page.
LoadedButtons == [f \in DOMAIN OriginalLabel |-> [disabled |-> FALSE, innerHTML |-> OriginalLabel[f]]]

\* The search inputs and the form each belongs to.
SearchInputs == {"search", "filter"}

FormOf(input) == IF input = "search" THEN "searchForm" ELSE "filterForm"

\* The edit modal of a freshly loaded page: not active, empty fields, no
\* employee in the form's action.
NoEditForm ==
    [active |-> FALSE, edit_name |-> "", edit_designation |-> "", edit_salary |-> <<>>,
     edit_join_date |-> "", action |-> <<>>]

NoEditEvent == [kind |-> "none", rid |-> 0, employeeId |-> 0]

NoSearch == [event |-> "none", input |-> "search", elapsed |-> 0, form |-> "none"]

Init ==
    /\ employees = <<>>
    /\ nextEmployeeId = 1
    /\ transactions = EmptyBag
    /\ tabs = [t \in Tabs |-> PageOf(<<>>)]
    /\ last = NoStep
    /\ buttons = [t \in Tabs |-> LoadedButtons]
    /\ timeouts = [t \in Tabs |-> <<>>]
    /\ searchTimeout = [t \in Tabs |-> 0]
    /\ nextTimerId = [t \in Tabs |-> 1]
    /\ search = [t \in Tabs |-> NoSearch]
    /\ editForm = [t \in Tabs |-> NoEditForm]
    /\ editRequests = [t \in Tabs |-> {}]
    /\ nextRequestId = [t \in Tabs |-> 1]
    /\ editEvent = [t \in Tabs |-> NoEditEvent]

\* The server's answer is applied to the ledger.
Commit(r) ==
    /\ employees' = r.employees
    /\ nextEmployeeId' = r.nextEmployeeId
    /\ transactions' = r.transactions

\* The add, edit and delete forms are posted by some client; the pages the
\* tabs show keep what they show.
AddEmployee(monthly_salary) ==
    /\ nextEmployeeId <= MaxEmployees
    /\ Commit(addEmployee(monthly_salary))
    /\ last' = NoStep
    /\ UNCHANGED <<tabs, spinnerVars, searchVars, editVars>>

EditEmployee(id, monthly_salary) ==
    /\ Commit(editEmployee(id, monthly_salary))
    /\ last' = NoStep
    /\ UNCHANGED <<tabs, spinnerVars, searchVars, editVars>>

DeleteEmployee(id, answer) ==
    /\ IF confirmDelete(answer)
       THEN Commit(deleteEmployee(id))
       ELSE UNCHANGED ledgerVars
    /\ last' = NoStep
    /\ UNCHANGED <<tabs, spinnerVars, searchVars, editVars>>

\* A new document replaces the one in tab t: the rows are rendered from the
\* ledger as it is now, and the modals, buttons, timeouts and fetches of the
\* old document are gone.
NewDocument(t) ==
    /\ tabs' = [tabs EXCEPT ![t] = PageOf(RenderedRows)]
    /\ buttons' = [buttons EXCEPT ![t] = LoadedButtons]
    /\ timeouts' = [timeouts EXCEPT ![t] = <<>>]
    /\ searchTimeout' = [searchTimeout EXCEPT ![t] = 0]
    /\ search' = [search EXCEPT ![t].event = "none"]
    /\ editForm' = [editForm EXCEPT ![t] = NoEditForm]
    /\ editRequests' = [editRequests EXCEPT ![t] = {}]
    /\ editEvent' = [editEvent EXCEPT ![t] = NoEditEvent]
    /\ UNCHANGED <<nextTimerId, nextRequestId>>

\* The operator opens the dashboard in tab t (served: the page and its
\* summary), or the page a submitted form leads to has loaded there.
LoadPage(t, served) ==
    /\ tabs[t].answer # "pending"
    /\ served \/ tabs[t].navigating
    /\ NewDocument(t)
    /\ last' = IF served THEN Step("dashboard", t, 0, <<>>, "none", getDashboardSummary)
               ELSE NoStep
    /\ UNCHANGED ledgerVars

PageLoad(t) == LoadPage(t, FALSE)

Dashboard(t) == LoadPage(t, TRUE)

\* Another client asks for the dashboard.
DashboardElsewhere ==
    /\ last' = Step("dashboard", "elsewhere", 0, <<>>, "none", getDashboardSummary)
    /\ UNCHANGED <<ledgerVars, tabs, spinnerVars, searchVars, editVars>>

\* The operator clicks the withdrawal icon in the row of employee e, with the
\* arguments the page was rendered with.
OpenWithdrawalModal(t, e) ==
    /\ ~tabs[t].navigating
    /\ e \in DOMAIN tabs[t].rows
    /\ tabs' = [tabs EXCEPT ![t] =
                   openWithdrawalModal(e, tabs[t].rows[e].totalSalary, tabs[t].rows[e].withdrawn)
                       @@ tabs[t]]
    /\ last' = NoStep
    /\ UNCHANGED <<ledgerVars, spinnerVars, searchVars, editVars>>

\* closeWithdrawalModal(), or a click on the backdrop of the withdrawal modal.
CloseWithdrawalModal(t) ==
    /\ ~tabs[t].navigating
    /\ tabs[t].active
    /\ tabs' = [tabs EXCEPT ![t] = closeWithdrawalModal(tabs[t])]
    /\ last' = NoStep
    /\ UNCHANGED <<ledgerVars, spinnerVars, searchVars, editVars>>

\* The Escape key: every modal of the page loses its class.
EscapeKey(t) ==
    /\ ~tabs[t].navigating
    /\ tabs[t].active \/ editForm[t].active
    /\ tabs' = [tabs EXCEPT ![t] = closeWithdrawalModal(tabs[t])]
    /\ editForm' = [editForm EXCEPT ![t].active = FALSE]
    /\ editEvent' = [editEvent EXCEPT ![t] =
                        IF editForm[t].active THEN [kind |-> "close", rid |-> 0, employeeId |-> 0]
                        ELSE @]
    /\ last' = NoStep
    /\ UNCHANGED <<ledgerVars, spinnerVars, searchVars, editRequests, nextRequestId>>

(***************************************************************************)
(* Timers.  The tabs run on one clock.  A pending timeout holds the        *)
(* milliseconds left until it is due; when time passes, it passes for      *)
(* every pending timeout of every document, in steps of a fraction of the  *)
(* shortest delay pending and never past a timeout that is due.  Of the    *)
(* timeouts of a document that are due, the one set first runs first.      *)
(***************************************************************************)
SpinnerDelay == 5000

SearchDelay == 500

\* The timeout of the submit handler for `form`, which saved originalText.
SpinnerCallback(form, originalText) ==
    [kind |-> "spinner", id |-> 0, form |-> form, input |-> "",
     originalText |-> originalText, remaining |-> SpinnerDelay]

\* The timeout of debounceSearch for `input`, whose id searchTimeout keeps.
SearchCallback(id, input) ==
    [kind |-> "search", id |-> id, form |-> FormOf(input), input |-> input,
     originalText |-> "", remaining |-> SearchDelay]

OfKind(timers, kind) == SelectSeq(timers, LAMBDA x : x.kind = kind)

\* The pending timeouts of the submit handler in tab t, oldest first.
spinnerTimers(t) == OfKind(timeouts[t], "spinner")

\* The pending timeouts of debounceSearch in tab t.
searchTimers(t) ==
    {timeouts[t][i] : i \in {j \in 1..Len(timeouts[t]) : timeouts[t][j].kind = "search"}}

\* The pending timeouts of all documents.
Pending == UNION {{timeouts[t][i] : i \in 1..Len(timeouts[t])} : t \in Tabs}

\* The least of bound and the times left of the timers.
MinRemaining(timers, bound) ==
    CHOOSE d \in {bound} \cup {x.remaining : x \in timers} :
        /\ d <= bound
        /\ \A x \in timers : d <= x.remaining

\* The step of the clock: a fraction of the shortest delay pending.
Quantum(timers) ==
    IF \E x \in timers : x.kind = "search" THEN SearchDelay \div TicksPerDelay
    ELSE SpinnerDelay \div SpinnerTicks

IsDue(timers) == \E i \in 1..Len(timers) : timers[i].remaining = 0

\* The position of the timeout to run: the first set of those that are due.
NextDue(timers) ==
    CHOOSE i \in 1..Len(timers) :
        /\ timers[i].remaining = 0
        /\ \A j \in 1..(i - 1) : timers[j].remaining # 0

RemoveAt(timers, i) == SubSeq(timers, 1, i - 1) \o SubSeq(timers, i + 1, Len(timers))

\* d milliseconds pass.
Elapse(timers, d) == [i \in 1..Len(timers) |-> [timers[i] EXCEPT !.remaining = @ - d]]

\* d milliseconds pass in every document.
Advance(d) ==
    /\ d > 0
    /\ timeouts' = [t \in Tabs |-> Elapse(timeouts[t], d)]
    /\ search' = [t \in Tabs |->
                     IF search[t].event = "call"
                     THEN [search[t] EXCEPT !.elapsed = Min(SearchDelay, @ + d)]
                     ELSE search[t]]

\* Time passes.
Tick ==
    /\ Pending # {}
    /\ Advance(MinRemaining(Pending, Quantum(Pending)))
    /\ last' = NoStep
    /\ UNCHANGED <<searchTimeout, nextTimerId, buttons, tabs, ledgerVars, editVars>>

(***************************************************************************)
(* The submit handler installed on every form at DOMContentLoaded.         *)
(***************************************************************************)
\* The handler's body for a form with a submit button: the buttons and the
\* timeouts of the document after the event.
submitHandler(docButtons, docTimeouts, form) ==
    [buttons |-> [docButtons EXCEPT ![form] = [disabled |-> TRUE, innerHTML |-> Spinner]],
     timeouts |-> Append(docTimeouts, SpinnerCallback(form, docButtons[form].innerHTML))]

\* The submit listener runs for `form` in tab t.
Submitted(t, form) ==
    /\ Len(timeouts[t]) < MaxPending
    /\ IF form \in DOMAIN buttons[t]
       THEN /\ buttons' = [buttons EXCEPT ![t] = submitHandler(buttons[t], timeouts[t], form).buttons]
            /\ timeouts' = [timeouts EXCEPT ![t] = submitHandler(buttons[t], timeouts[t], form).timeouts]
       ELSE UNCHANGED spinnerVars

\* A submit event fires on `form` in tab t; what the form's submission leads
\* to is not followed.
SubmitEvent(t, form) ==
    /\ Submitted(t, form)
    /\ UNCHANGED <<ledgerVars, pageVars, searchVars, editVars>>

\* The timeout to run in tab t is one of the submit handler: its callback
\* enables the button and puts back the text it saved.
SpinnerTimeout(t) ==
    /\ IsDue(timeouts[t])
    /\ timeouts[t][NextDue(timeouts[t])].kind = "spinner"
    /\ buttons' = [buttons EXCEPT ![t][timeouts[t][NextDue(timeouts[t])].form] =
                      [disabled |-> FALSE,
                       innerHTML |-> timeouts[t][NextDue(timeouts[t])].originalText]]
    /\ timeouts' = [timeouts EXCEPT ![t] = RemoveAt(@, NextDue(timeouts[t]))]
    /\ last' = NoStep
    /\ UNCHANGED <<tabs, ledgerVars, searchVars, editVars>>

(***************************************************************************)
(* The withdrawal form.                                                    *)
(***************************************************************************)
\* What the submit event of the withdrawal form leaves in tab t when
\* validateWithdrawal returned `valid`: the form is posted, with the hidden
\* id field and the amount, and the tab waits for the answer; or nothing is
\* sent.
Validated(t, value, valid) ==
    /\ tabs' = IF valid
               THEN [u \in Tabs |->
                       IF u = t
                       THEN [tabs[t] EXCEPT
                               !.navigating = TRUE,
                               !.post = <<[employee_id |-> tabs[t].withdrawal_employee_id,
                                           amount |-> value]>>,
                               !.answer = "pending",
                               !.overlap = \E w \in Tabs \ {t} : tabs[w].answer = "pending"]
                       ELSE IF tabs[u].answer = "pending"
                            THEN [tabs[u] EXCEPT !.overlap = TRUE]
                            ELSE tabs[u]]
               ELSE tabs
    /\ last' = IF valid THEN NoStep
               ELSE Step("withdraw", t, tabs[t].openedFor, value, "validateWithdrawal", NoSummary)

\* The operator leaves `value` in the amount field of tab t and submits the
\* form: onsubmit runs validateWithdrawal, and the submit listener of the
\* spinner runs whatever it returns.
SubmitWithdrawal(t, value) ==
    /\ tabs[t].active
    /\ ~tabs[t].navigating
    /\ Submitted(t, "withdrawalForm")
    /\ Validated(t, value, validateWithdrawal(value, tabs[t].max))
    /\ UNCHANGED <<ledgerVars, searchVars, editVars>>

\* What became of a request the server answered with r.
Outcome(r) == IF r.error = "none" THEN "recorded" ELSE r.error

\* The server's answer r to the withdrawal request of tab t.
Answered(t, r) ==
    /\ Commit(r)
    /\ tabs' = [tabs EXCEPT ![t].answer = Outcome(r)]
    /\ last' = Step("withdraw", t, tabs[t].openedFor, tabs[t].post[1].amount, Outcome(r), NoSummary)

\* The withdrawal request of tab t reaches the server, which runs
\* recordWithdrawal on its fields; the tab goes on waiting for the page the
\* answer redirects to.
RecordWithdrawal(t) ==
    /\ tabs[t].answer = "pending"
    /\ Answered(t, recordWithdrawal(tabs[t].post[1].employee_id, tabs[t].post[1].amount))
    /\ UNCHANGED <<spinnerVars, searchVars, editVars>>

\* The server's answer r to a withdrawal request of another client.
AnsweredElsewhere(e, value, r) ==
    /\ Commit(r)
    /\ last' = Step("withdraw", "elsewhere", e, value, Outcome(r), NoSummary)

\* Another client of the server posts a withdrawal of `value` for employee
\* e, whatever that client checked before.
WithdrawElsewhere(e, value) ==
    /\ AnsweredElsewhere(e, value, recordWithdrawal(NumberString(Number(e)), value))
    /\ UNCHANGED <<tabs, spinnerVars, searchVars, editVars>>

(***************************************************************************)
(* debounceSearch.                                                         *)
(***************************************************************************)
\* clearTimeout(id): the timeout with that id, if pending, is dropped.
clearTimeout(timers, id) == SelectSeq(timers, LAMBDA x : id = 0 \/ x.id # id)

\* Faulty variant of debounceSearch: the pending timeout is not cleared.
debounceSearch_NoClear(t, input) ==
    [timeouts |-> Append(timeouts[t], SearchCallback(nextTimerId[t], input)),
     searchTimeout |-> nextTimerId[t]]

\* debounceSearch(input) in the document of tab t: its timeouts and
\* searchTimeout after the call.
debounceSearch(t, input) ==
    [timeouts |-> Append(clearTimeout(timeouts[t], searchTimeout[t]),
                         SearchCallback(nextTimerId[t], input)),
     searchTimeout |-> nextTimerId[t]]

DebounceSearch(t, input) ==
    /\ nextTimerId[t] <= MaxCalls
    /\ timeouts' = [timeouts EXCEPT ![t] = debounceSearch(t, input).timeouts]
    /\ searchTimeout' = [searchTimeout EXCEPT ![t] = debounceSearch(t, input).searchTimeout]
    /\ nextTimerId' = [nextTimerId EXCEPT ![t] = @ + 1]
    /\ search' = [search EXCEPT ![t] =
                     [event |-> "call", input |-> input, elapsed |-> 0, form |-> @.form]]
    /\ UNCHANGED <<buttons, ledgerVars, pageVars, editVars>>

\* The timeout to run in tab t is one of debounceSearch: its callback
\* submits the form of its input, and the tab waits for the page that leads
\* to.
SearchTimeout(t) ==
    /\ IsDue(timeouts[t])
    /\ timeouts[t][NextDue(timeouts[t])].kind = "search"
    /\ timeouts' = [timeouts EXCEPT ![t] = RemoveAt(@, NextDue(timeouts[t]))]
    /\ search' = [search EXCEPT ![t] =
                     [event |-> IF @.event = "submit" THEN "resubmit" ELSE "submit",
                      input |-> @.input, elapsed |-> @.elapsed,
                      form |-> timeouts[t][NextDue(timeouts[t])].form]]
    /\ tabs' = [tabs EXCEPT ![t].navigating = TRUE]
    /\ UNCHANGED <<searchTimeout, nextTimerId, last, buttons, ledgerVars, editVars>>
(***************************************************************************)
(* Specifications.                                                         *)
(***************************************************************************)
\* The page of one tab, whose rows and withdrawal modal may go stale, and
\* the other clients of the server acting on the ledger in between.  One
\* employee is on the payroll at a time: the next is added when the one
\* before has been deleted; and the operator submits the withdrawal form
\* when its button is enabled.
Next ==
    \/ \E s \in SalaryInputs : DOMAIN employees = {} /\ AddEmployee(s)
    \/ \E id \in EmployeeIds, s \in SalaryInputs : EditEmployee(id, s)
    \/ \E id \in EmployeeIds, answer \in BOOLEAN : DeleteEmployee(id, answer)
    \/ \E e \in EmployeeIds, v \in RawInputs : WithdrawElsewhere(e, v)
    \/ Dashboard("A")
    \/ \E e \in EmployeeIds : OpenWithdrawalModal("A", e)
    \/ CloseWithdrawalModal("A")
    \/ EscapeKey("A")
    \/ \E v \in AmountInputs :
          ~buttons["A"]["withdrawalForm"].disabled /\ SubmitWithdrawal("A", v)
    \/ RecordWithdrawal("A")
    \/ PageLoad("A")
    \/ SpinnerTimeout("A")
    \/ Tick

Spec == Init /\ [][Next]_vars

\* Two tabs on the same ledger: an employee is added, and withdrawals are
\* attempted from both pages, whose requests reach the server in any order;
\* no salary is edited and no employee deleted, and the operator submits the
\* withdrawal form of a tab when its button is enabled.
NextWithdrawals ==
    \/ \E s \in SalaryInputs : DOMAIN employees = {} /\ AddEmployee(s)
    \/ \E t \in Tabs : Dashboard(t)
    \/ \E t \in Tabs, e \in EmployeeIds : OpenWithdrawalModal(t, e)
    \/ \E t \in Tabs, v \in AmountInputs :
          ~buttons[t]["withdrawalForm"].disabled /\ SubmitWithdrawal(t, v)
    \/ \E t \in Tabs : RecordWithdrawal(t)
    \/ \E t \in Tabs : PageLoad(t)
    \/ \E t \in Tabs : SpinnerTimeout(t)
    \/ Tick

SpecWithdrawals == Init /\ [][NextWithdrawals]_vars

\* The ledger under the requests of any number of clients.
NextLedger ==
    \/ \E s \in SalaryInputs : AddEmployee(s)
    \/ \E id \in EmployeeIds, s \in SalaryInputs : EditEmployee(id, s)
    \/ \E id \in EmployeeIds, answer \in BOOLEAN : DeleteEmployee(id, answer)
    \/ \E e \in EmployeeIds, v \in AmountInputs : WithdrawElsewhere(e, v)
    \/ DashboardElsewhere

SpecLedger == Init /\ [][NextLedger]_vars

\* Submit events on the forms of one document.
NextSpinner ==
    \/ \E f \in Forms : SubmitEvent("A", f)
    \/ SpinnerTimeout("A")
    \/ Tick

SpecSpinner == Init /\ [][NextSpinner]_vars

\* Keystrokes in the search inputs of one document, the pages the submitted
\* forms lead to, and submit events on the withdrawal form, whose timeouts
\* run on the same clock as those of debounceSearch.
NextSearch ==
    \/ \E i \in SearchInputs : DebounceSearch("A", i)
    \/ SearchTimeout("A")
    \/ SubmitEvent("A", "withdrawalForm")
    \/ SpinnerTimeout("A")
    \/ Tick
    \/ PageLoad("A")

SpecSearch == Init /\ [][NextSearch]_vars

(***************************************************************************)
(* openEditModal: the fetch of the employee's data and its two callbacks.  *)
(***************************************************************************)
EmployeeNames == <<"Ayesha", "Bilal", "Chand", "Danish">>

Designations == <<"Chef", "Waiter", "Cashier", "Manager">>

JoinDates == <<"2024-01-01", "2024-02-01", "2024-03-01", "2024-04-01">>

\* The JSON the server answers GET /employee/<id>/data with.
employeeData(id) ==
    [name |-> EmployeeNames[id], designation |-> Designations[id],
     salary |-> SalaryOf(id), join_date |-> JoinDates[id]]

\* `/employee/edit/${employeeId}`
editAction(employeeId) == <<"/employee/edit/">> \o NumberString(Number(employeeId))

\* The employee id a form action of that shape names.
ActionId(action) == DecValue(Tail(action))

\* openEditModal(employeeId), up to the fetch: a request is in flight, and
\* the modal and the form are as they were.
openEditModal(requests, rid, employeeId) ==
    requests \cup {[rid |-> rid, employeeId |-> employeeId]}

\* Faulty variant of thenData: the form's action is left as it was.
thenData_KeepsAction(form, employeeId, data) ==
    [active |-> TRUE,
     edit_name |-> data.name,
     edit_designation |-> data.designation,
     edit_salary |-> NumberString(data.salary),
     edit_join_date |-> data.join_date,
     action |-> form.action]

\* .then(data => ...): the four fields, the form's action and the modal's
\* class after the callback of the call for employeeId.
thenData(form, employeeId, data) ==
    [active |-> TRUE,
     edit_name |-> data.name,
     edit_designation |-> data.designation,
     edit_salary |-> NumberString(data.salary),
     edit_join_date |-> data.join_date,
     action |-> editAction(employeeId)]

\* .catch(error => ...): an alert, and the form as it was.
catchError(form, error) == form

\* closeEditModal(): the modal's class goes, the form stays as it is.
closeEditModal(form) == [form EXCEPT !.active = FALSE]

OpenEditModal(t, employeeId) ==
    /\ nextRequestId[t] <= MaxFetches
    /\ editRequests' = [editRequests EXCEPT ![t] = openEditModal(@, nextRequestId[t], employeeId)]
    /\ nextRequestId' = [nextRequestId EXCEPT ![t] = @ + 1]
    /\ editEvent' = [editEvent EXCEPT ![t] =
                        [kind |-> "call", rid |-> nextRequestId[t], employeeId |-> employeeId]]
    /\ UNCHANGED <<editForm, ledgerVars, pageVars, spinnerVars, searchVars>>

\* The answer to request r of tab t arrives and parses as JSON.
FetchResolved(t, r) ==
    /\ r \in editRequests[t]
    /\ editForm' = [editForm EXCEPT ![t] = thenData(@, r.employeeId, employeeData(r.employeeId))]
    /\ editRequests' = [editRequests EXCEPT ![t] = @ \ {r}]
    /\ editEvent' = [editEvent EXCEPT ![t] =
                        [kind |-> "then", rid |-> r.rid, employeeId |-> r.employeeId]]
    /\ UNCHANGED <<nextRequestId, ledgerVars, pageVars, spinnerVars, searchVars>>

\* Request r of tab t fails: the network, or an answer that is not JSON.
FetchRejected(t, r) ==
    /\ r \in editRequests[t]
    /\ editForm' = [editForm EXCEPT ![t] = catchError(@, "error")]
    /\ editRequests' = [editRequests EXCEPT ![t] = @ \ {r}]
    /\ editEvent' = [editEvent EXCEPT ![t] =
                        [kind |-> "catch", rid |-> r.rid, employeeId |-> r.employeeId]]
    /\ UNCHANGED <<nextRequestId, ledgerVars, pageVars, spinnerVars, searchVars>>

\* closeEditModal(), or a click on the backdrop of the edit modal.
CloseEditModal(t) ==
    /\ editForm[t].active
    /\ editForm' = [editForm EXCEPT ![t] = closeEditModal(@)]
    /\ editEvent' = [editEvent EXCEPT ![t] = [kind |-> "close", rid |-> 0, employeeId |-> 0]]
    /\ UNCHANGED <<editRequests, nextRequestId, ledgerVars, pageVars, spinnerVars, searchVars>>

\* formatCurrency(input) on the salary field of the open edit modal: the
\* field is rewritten with what it holds, grouped.
FormatSalaryField(t) ==
    /\ editForm[t].active
    /\ editForm' = [editForm EXCEPT ![t].edit_salary = FormatCurrency(@)]
    /\ editEvent' = [editEvent EXCEPT ![t] = [kind |-> "format", rid |-> 0, employeeId |-> 0]]
    /\ UNCHANGED <<editRequests, nextRequestId, ledgerVars, pageVars, spinnerVars, searchVars>>

\* The edit modal of one document.
NextEdit ==
    \/ \E id \in EditIds : OpenEditModal("A", id)
    \/ \E r \in editRequests["A"] : FetchResolved("A", r)
    \/ \E r \in editRequests["A"] : FetchRejected("A", r)
    \/ CloseEditModal("A")
    \/ FormatSalaryField("A")
    \/ EscapeKey("A")

SpecEdit == Init /\ [][NextEdit]_vars

(***************************************************************************)
(* Properties.                                                             *)
(***************************************************************************)
\* The step taken is a withdrawal attempt for an employee of the ledger.
AttemptOnEmployee == last'.op = "withdraw" /\ last'.employee \in DOMAIN employees

\* The amount of the attempt, as the browser reads the field.
Amount(step) == ParseFloat(step.value)

\* The field holds a number and nothing else.
WellFormed(value) == ~ParseField(value).nan

Rejected(step) == step.outcome \in {"validateWithdrawal", "ValidationError"}

\* The attempt was made in a tab of the browser, whose modal is to be seen.
FromTab(step) == step.tab \in Tabs

\* The max of the modal the attempt of a tab was made from.
MaxOf(step) == ParseFloat(tabs[step.tab].max)

\* The balance of employee e, as a page rendered now would carry it.
Balance(e) == Rendered(remaining(e))

\* a = b on JavaScript numbers
Eq(a, b) == Le(a, b) /\ Le(b, a)

\* C1: a withdrawal attempt whose amount exceeds remaining(e) is rejected and
\* leaves the transactions as they were; when the amount exceeds the max that
\* openWithdrawalModal set, it is validateWithdrawal that rejects it.
C1_OverdrawRejected ==
    [][AttemptOnEmployee /\ Gt(Amount(last'), Balance(last'.employee))
        => /\ Rejected(last')
           /\ transactions' = transactions
           /\ (FromTab(last') /\ Gt(Amount(last'), MaxOf(last')))
                => last'.outcome = "validateWithdrawal"]_vars

\* C1 witness: an amount within the modal's stale max but above the balance
\* was posted and the server refused it.
C1_Witness ==
    /\ last.op = "withdraw"
    /\ FromTab(last)
    /\ last.employee \in DOMAIN employees
    /\ WellFormed(last.value)
    /\ DecGt(ParseField(last.value), remaining(last.employee))
    /\ Le(Amount(last), MaxOf(last))
    /\ last.outcome = "ValidationError"

\* C2: after any sequence of withdrawals, no employee's remaining balance is
\* negative, every recorded amount is positive, and the remaining balance
\* openWithdrawalModal computes, which it writes as the amount field's max,
\* is not negative and, on a page whose rows are those the server renders
\* now, equals the salary minus the sum of the employee's transactions.
C2_RemainingNonNegative ==
    /\ \A e \in DOMAIN employees :
          /\ DecLe(Dec(0), remaining(e))
          /\ DecLe(withdrawn(e), employees[e].monthly_salary)
    /\ \A r \in DOMAIN transactions : DecGt(r.amount, Dec(0))
    /\ \A t \in Tabs :
          tabs[t].max # <<>>
             => LET shown == ParseFloat(tabs[t].max)
                    e == tabs[t].openedFor
                IN  /\ e \in DOMAIN employees
                    /\ Le(Number(0), shown)
                    /\ tabs[t].rows[e] = RenderedRows[e] => Eq(shown, Balance(e))

\* The tab has a withdrawal request that the server has answered.
HasAnswer(t) == tabs[t].answer \in {"recorded", "ValidationError", "NotFoundError"}

\* The amount tab t posted.
Posted(t) == ParseField(tabs[t].post[1].amount)

\* The requests of tabs t and u for employee e were on their way at the same
\* time, u's has been answered and t's is the one answered now; R0 is the
\* balance both were sent against, each amount is a positive number within
\* R0, and the two together exceed it.
Concurrent(t, u, e) ==
    /\ u # t
    /\ tabs[t].answer = "pending" /\ HasAnswer(u)
    /\ tabs[t].overlap /\ tabs[u].overlap
    /\ tabs[u].openedFor = e
    /\ WellFormed(tabs[t].post[1].amount) /\ WellFormed(tabs[u].post[1].amount)
    /\ LET R0 == IF tabs[u].answer = "recorded"
                 THEN DecAdd(remaining(e), Posted(u)) ELSE remaining(e)
       IN  /\ DecGt(Posted(t), Dec(0)) /\ DecGt(Posted(u), Dec(0))
           /\ DecLe(Posted(t), R0) /\ DecLe(Posted(u), R0)
           /\ DecGt(DecAdd(Posted(t), Posted(u)), R0)

\* validateWithdrawal return false.
C4_NonPositiveRejectedByValidate ==
    ( /\ last.op = "withdraw"
      /\ FromTab(last)
      /\ ~(WellFormed(last.value) /\ DecGt(ParseField(last.value), Dec(0))) )
        => last.outcome = "validateWithdrawal"

\* C5: every amount a with 0 < a <= remaining(e) is accepted: one transaction
\* of amount a is added and remaining(e) drops by a.
C5_ValidAmountAccepted ==
    [][( /\ AttemptOnEmployee
         /\ WellFormed(last'.value)
         /\ DecGt(ParseField(last'.value), Dec(0))
         /\ DecLe(ParseField(last'.value), remaining(last'.employee)) )
        => /\ last'.outcome = "recorded"
           /\ transactions' = transactions (+)
                SetToBag({[employee_id |-> last'.employee,
                           amount |-> ParseField(last'.value)]})]_vars

\* C6: editEmployee leaves the transactions as they are; and while
\* withdrawn(e) >= monthly_salary(e) every withdrawal attempt for e is
\* rejected, by validateWithdrawal itself when the modal shows the present
\* balance and the field holds a number.
C6_EditKeepsTransactionsAndBlocks ==
    [][/\ (employees' # employees /\ DOMAIN employees' = DOMAIN employees)
            => transactions' = transactions
       /\ (AttemptOnEmployee /\ DecLe(employees[last'.employee].monthly_salary, withdrawn(last'.employee)))
            => /\ Rejected(last')
               /\ transactions' = transactions
               /\ ( /\ FromTab(last')
                    /\ Eq(MaxOf(last'), Balance(last'.employee))
                    /\ ~Amount(last').nan )
                    => last'.outcome = "validateWithdrawal"]_vars

\* C6 witness: the salary was lowered below the amount withdrawn, the
\* transactions are still there, and a withdrawal attempt was rejected.
C6_Witness ==
    /\ last.op = "withdraw"
    /\ last.employee \in DOMAIN employees
    /\ DecGt(withdrawn(last.employee), employees[last.employee].monthly_salary)
    /\ Rejected(last)
    /\ FromTab(last)

\* C7: every transaction references an existing employee, and a withdrawal
\* attempted for a deleted employee, when posted, fails with NotFoundError.
C7_DeleteCascades ==
    /\ \A r \in DOMAIN transactions : r.employee_id \in DOMAIN employees
    /\ (last.op = "withdraw" /\ last.employee \notin DOMAIN employees)
          => last.outcome \in {"validateWithdrawal", "NotFoundError"}

\* C7 witness: a withdrawal posted from a modal opened before the employee
\* was deleted failed with NotFoundError.
C7_Witness ==
    /\ last.op = "withdraw"
    /\ last.employee \notin DOMAIN employees
    /\ last.outcome = "NotFoundError"
    /\ FromTab(last)

RECURSIVE SumRemaining(_)
SumRemaining(S) ==
    IF S = {} THEN Dec(0)
    ELSE LET e == CHOOSE x \in S : TRUE
         IN  DecAdd(remaining(e), SumRemaining(S \ {e}))

RECURSIVE SumWithdrawn(_)
SumWithdrawn(S) ==
    IF S = {} THEN Dec(0)
    ELSE LET e == CHOOSE x \in S : TRUE
         IN  DecAdd(withdrawn(e), SumWithdrawn(S \ {e}))

\* C8: the dashboard summary counts the present employees, totals their
\* salaries and the present transactions, has total_remaining =
\* total_salary - total_withdrawn (the sum of the employees' remaining
\* balances), and the query changes nothing in the ledger.
C8_DashboardTotals ==
    [][last'.op = "dashboard"
        => /\ UNCHANGED <<employees, nextEmployeeId, transactions>>
           /\ last'.summary.employee_count = Cardinality(DOMAIN employees)
           /\ last'.summary.total_withdrawn = SumWithdrawn(DOMAIN employees)
           /\ last'.summary.total_remaining =
                 DecSub(last'.summary.total_salary, last'.summary.total_withdrawn)
           /\ last'.summary.total_remaining = SumRemaining(DOMAIN employees)]_vars

\* C8 witness: a dashboard query on a ledger with two employees, each with
\* a recorded withdrawal.
C8_Witness ==
    /\ last.op = "dashboard"
    /\ last.summary.employee_count = 2
    /\ \A e \in DOMAIN employees : DecGt(withdrawn(e), Dec(0))
    /\ DecGt(last.summary.total_withdrawn, Dec(0))
    /\ DecGt(last.summary.total_salary, last.summary.total_remaining)

\* C9: once no timeout of the submit handler is pending for a form, its
\* submit button is enabled and shows the label it had before the form was
\* first submitted; and a disabled button always has a timeout pending that
\* will enable it.
C9_ButtonRestored ==
    \A t \in Tabs : \A f \in DOMAIN buttons[t] :
        LET pending == {i \in 1..Len(spinnerTimers(t)) : spinnerTimers(t)[i].form = f}
        IN  /\ buttons[t][f].disabled => pending # {}
            /\ pending = {} => buttons[t][f] = [disabled |-> FALSE, innerHTML |-> OriginalLabel[f]]

\* C10: at most one search timeout is pending; after a call it is the one
\* the call created, for the call's input; and a form is submitted only when
\* 500 ms have passed since the latest call, once, and it is the form of
\* that call's input.
C10_DebounceOneSubmit ==
    \A t \in Tabs :
        /\ Cardinality(searchTimers(t)) <= 1
        /\ search[t].event = "call" =>
              /\ searchTimers(t) = {x \in searchTimers(t) :
                                       x.id = searchTimeout[t] /\ x.input = search[t].input}
              /\ Cardinality(searchTimers(t)) = 1
              /\ \A x \in searchTimers(t) : x.remaining + search[t].elapsed = SearchDelay
        /\ search[t].event # "resubmit"
        /\ search[t].event = "submit" =>
              /\ search[t].form = FormOf(search[t].input)
              /\ search[t].elapsed >= SearchDelay
              /\ searchTimers(t) = {}

\* C10 witness: after a burst of calls for different inputs, the form of the
\* last call's input was submitted.
C10_Witness ==
    /\ search["A"].event = "submit"
    /\ nextTimerId["A"] >= 4
    /\ search["A"].input = "filter"
    /\ search["A"].form = "filterForm"

\* The form shows nothing yet, or its action names the employee whose data
\* fill the four fields, the salary as the callback wrote it or as
\* formatCurrency has rewritten it since.
EditFormConsistent(form) ==
    IF form.action = <<>>
    THEN form = NoEditForm
    ELSE LET id == ActionId(form.action)
         IN  /\ id \in EditIds
             /\ form.action = editAction(id)
             /\ form.edit_name = employeeData(id).name
             /\ form.edit_designation = employeeData(id).designation
             /\ form.edit_salary \in {NumberString(employeeData(id).salary),
                                      FormatCurrency(NumberString(employeeData(id).salary))}
             /\ form.edit_join_date = employeeData(id).join_date

\* C11: whatever the order of openEditModal calls and of their answers, the
\* edit form's action names the employee whose name, designation, salary and
\* join date fill the fields; an answer that fails changes neither fields nor
\* action and does not activate the modal, and a call changes nothing before
\* its answer arrives.
C11_EditFormActionMatchesFields ==
    /\ [](\A t \in Tabs : EditFormConsistent(editForm[t]))
    /\ [][\A t \in Tabs :
             /\ editEvent'[t].kind \in {"catch", "call"} => editForm'[t] = editForm[t]
             /\ editEvent'[t].kind = "then"
                  => /\ editForm'[t].active
                     /\ ActionId(editForm'[t].action) = editEvent'[t].employeeId]_vars

\* C11 witness: three calls are interleaved; the second was answered and its
\* employee fills the form, the third, for another employee, has just failed,
\* and the first is still unanswered.
C11_Witness ==
    /\ editEvent["A"].kind = "catch"
    /\ editForm["A"].active
    /\ editForm["A"].action # <<>>
    /\ ActionId(editForm["A"].action) # editEvent["A"].employeeId
    /\ \E r \in editRequests["A"] : r.rid < editEvent["A"].rid

====
